---- MODULE Spec2Model ----
(***************************************************************************)
(* Huffman codec of compression_encoder.py: build_huffman_tree,            *)
(* build_codes, compress_file and decompress_file, and the two Streamlit   *)
(* tabs that call them.                                                    *)
(*                                                                         *)
(* A text is a sequence of one-character strings.  A bit string ("0101")   *)
(* is a sequence of the integers 0 and 1.  A Python dict is a sequence of  *)
(* records [k, v] with distinct keys, in insertion order.  Positions in    *)
(* heap operators are 0-based as in heapq; heap[pos + 1] reads list        *)
(* element pos.                                                            *)
(***************************************************************************)
EXTENDS Integers, Sequences, FiniteSets, TLC

VARIABLES
    pc,              \* position of the session: which handler ran last
    text,            \* contents of the uploaded input file (input_path)
    default_codes,   \* the dict object bound to build_codes' default `codes={}`
    compressed_bin,  \* contents of output_path: sequence of bytes 0..255
    codes_json,      \* contents of codes_path: a JSON value
    decode_bin,      \* contents of input_bin_path given to decompress_file
    decode_codes,    \* contents of codes_json_path given to decompress_file
    decoded_txt,     \* contents of decompress_file's output_path
    outcome,         \* how the last decompress_file call ended
    calls,           \* log of the compress_file calls made: [text, bin, table]
    root             \* value returned by build_huffman_tree

vars == <<pc, text, default_codes, compressed_bin, codes_json, decode_bin,
          decode_codes, decoded_txt, outcome, calls, root>>

----------------------------------------------------------------------------
(* Bounds *)

MaxTotalLen == 5
MaxCalls == 3
MaxCodecLen == 7
MaxPairLen == 6
MaxTreeLen == 6
MaxUploadBytes == 1
MaxUploadCodeLen == 2

Alphabet == {"a", "b", "c"}
TreeAlphabet == {"a", "b", "c", "d"}
UploadKeys == <<"a", "b">>
UploadByteValues == {0, 90, 255}

RECURSIVE SeqsUpTo(_, _)
SeqsUpTo(S, n) ==
    IF n = 0 THEN {<<>>}
    ELSE LET shorter == SeqsUpTo(S, n - 1)
         IN  shorter \cup {Append(s, x) : s \in {t \in shorter : Len(t) = n - 1}, x \in S}

----------------------------------------------------------------------------
(* Python values *)

None == [none |-> TRUE]
NoChar == ""

IsNone(x) == x.none

PyDict(d) == [none |-> FALSE, dict |-> d]

Front(s) == SubSeq(s, 1, Len(s) - 1)

DictHas(d, key) == \E i \in 1..Len(d) : d[i].k = key

DictGet(d, key) == d[CHOOSE i \in 1..Len(d) : d[i].k = key].v

DictSet(d, key, val) ==
    IF DictHas(d, key)
    THEN [d EXCEPT ![CHOOSE i \in 1..Len(d) : d[i].k = key] = [k |-> key, v |-> val]]
    ELSE Append(d, [k |-> key, v |-> val])

JsonNull == [null |-> TRUE, items |-> <<>>]
JsonObject(d) == [null |-> FALSE, items |-> d]

json_dump(value) == IF IsNone(value) THEN JsonNull ELSE JsonObject(value.dict)

json_load(file) == IF file.null THEN None ELSE PyDict(file.items)

----------------------------------------------------------------------------
(* class Node *)

Node(char, freq) ==
    [none |-> FALSE, char |-> char, freq |-> freq, left |-> None, right |-> None]

\* __lt__ with the comparison turned round.
LtFlipped(x, y) == x.freq > y.freq

Lt(x, y) == x.freq < y.freq

----------------------------------------------------------------------------
(* heapq, as build_huffman_tree uses it *)

RECURSIVE SiftdownLoop(_, _, _, _)
SiftdownLoop(heap, startpos, pos, newitem) ==
    IF pos > startpos
    THEN LET parentpos == (pos - 1) \div 2
             parent == heap[parentpos + 1]
         IN  IF Lt(newitem, parent)
             THEN SiftdownLoop([heap EXCEPT ![pos + 1] = parent], startpos, parentpos, newitem)
             ELSE [heap EXCEPT ![pos + 1] = newitem]
    ELSE [heap EXCEPT ![pos + 1] = newitem]

siftdown(heap, startpos, pos) == SiftdownLoop(heap, startpos, pos, heap[pos + 1])

RECURSIVE SiftupLoop(_, _, _, _)
SiftupLoop(heap, startpos, pos, newitem) ==
    LET endpos == Len(heap)
        childpos == 2 * pos + 1
    IN  IF childpos < endpos
        THEN LET rightpos == childpos + 1
                 smaller == IF rightpos < endpos /\ ~Lt(heap[childpos + 1], heap[rightpos + 1])
                            THEN rightpos
                            ELSE childpos
             IN  SiftupLoop([heap EXCEPT ![pos + 1] = heap[smaller + 1]], startpos, smaller, newitem)
        ELSE siftdown([heap EXCEPT ![pos + 1] = newitem], startpos, pos)

siftup(heap, pos) == SiftupLoop(heap, pos, pos, heap[pos + 1])

RECURSIVE HeapifyFrom(_, _)
HeapifyFrom(x, i) == IF i < 0 THEN x ELSE HeapifyFrom(siftup(x, i), i - 1)

heapify(x) == HeapifyFrom(x, (Len(x) \div 2) - 1)

heappop(heap) ==
    LET lastelt == heap[Len(heap)]
        rest == Front(heap)
    IN  IF Len(rest) > 0
        THEN [item |-> rest[1], heap |-> siftup([rest EXCEPT ![1] = lastelt], 0)]
        ELSE [item |-> lastelt, heap |-> rest]

heappush(heap, item) == siftdown(Append(heap, item), 0, Len(heap))

----------------------------------------------------------------------------
(* build_huffman_tree *)

RECURSIVE Counter(_)
Counter(t) ==
    IF t = <<>> THEN <<>>
    ELSE LET m == Counter(Front(t))
             c == t[Len(t)]
         IN  IF DictHas(m, c) THEN DictSet(m, c, DictGet(m, c) + 1) ELSE DictSet(m, c, 1)

RECURSIVE MergeLoop(_)
MergeLoop(heap) ==
    IF Len(heap) > 1
    THEN LET p1 == heappop(heap)
             p2 == heappop(p1.heap)
             node1 == p1.item
             node2 == p2.item
             merged == [Node(NoChar, node1.freq + node2.freq) EXCEPT !.left = node1, !.right = node2]
         IN  MergeLoop(heappush(p2.heap, merged))
    ELSE heap

RECURSIVE Leaves(_)
Leaves(items) ==
    IF items = <<>> THEN <<>>
    ELSE Append(Leaves(Front(items)), Node(items[Len(items)].k, items[Len(items)].v))

build_huffman_tree(t) ==
    LET freq_map == Counter(t)
        heap == heapify(Leaves(freq_map))
        final == MergeLoop(heap)
    IN  IF Len(final) > 0 THEN final[1] ELSE None

----------------------------------------------------------------------------
(* build_codes: `codes` is the dict as the call leaves it (the walk writes into
   the object it was given), `ret` the value the call returns. *)

RECURSIVE build_codes(_, _, _)
build_codes(node, current_code, codes) ==
    IF IsNone(node)
    THEN [ret |-> None, codes |-> codes]
    ELSE LET here == IF node.char # NoChar
                     THEN DictSet(codes, node.char, current_code)
                     ELSE codes
             l == build_codes(node.left, Append(current_code, 0), here)
             r == build_codes(node.right, Append(current_code, 1), l.codes)
         IN  [ret |-> PyDict(r.codes), codes |-> r.codes]

----------------------------------------------------------------------------
(* compress_file *)

RECURSIVE JoinCodes(_, _)
JoinCodes(table, chars) ==
    IF chars = <<>> THEN <<>>
    ELSE JoinCodes(table, Front(chars)) \o DictGet(table.dict, chars[Len(chars)])

RECURSIVE Zeros(_)
Zeros(n) == IF n = 0 THEN <<>> ELSE Append(Zeros(n - 1), 0)

\* The pad length without the outer % 8: a whole zero byte at a byte boundary.
PadLenFullByte(n) == 8 - (n % 8)

PadLen(n) == (8 - (n % 8)) % 8

RECURSIVE BitsToInt(_)
BitsToInt(bits) ==
    IF bits = <<>> THEN 0
    ELSE 2 * BitsToInt(Front(bits)) + bits[Len(bits)]

Min(x, y) == IF x < y THEN x ELSE y

RECURSIVE PackBytes(_, _)
PackBytes(padded_encoded, i) ==
    IF i >= Len(padded_encoded) THEN <<>>
    ELSE LET byte == SubSeq(padded_encoded, i + 1, Min(i + 8, Len(padded_encoded)))
         IN  <<BitsToInt(byte)>> \o PackBytes(padded_encoded, i + 8)

compress_file(t, dflt) ==
    LET tree == build_huffman_tree(t)
        built == build_codes(tree, <<>>, dflt)
        codes == built.ret
        encoded_text == JoinCodes(codes, t)
        padded_encoded == encoded_text \o Zeros(PadLen(Len(encoded_text)))
    IN  [bin |-> PackBytes(padded_encoded, 0),
         table |-> json_dump(codes),
         dflt |-> built.codes]

----------------------------------------------------------------------------
(* decompress_file *)

RECURSIVE Binary(_)
Binary(n) == IF n < 2 THEN <<n>> ELSE Append(Binary(n \div 2), n % 2)

\* The byte formatted as "b" instead of "08b": leading zeros lost.
ByteToBitsUnpadded(byte) == Binary(byte)

ByteToBits(byte) == Zeros(8 - Len(Binary(byte))) \o Binary(byte)

RECURSIVE BitString(_)
BitString(byte_data) ==
    IF byte_data = <<>> THEN <<>>
    ELSE BitString(Front(byte_data)) \o ByteToBits(byte_data[Len(byte_data)])

RECURSIVE ReverseCodes(_)
ReverseCodes(items) ==
    IF items = <<>> THEN <<>>
    ELSE DictSet(ReverseCodes(Front(items)), items[Len(items)].v, items[Len(items)].k)

RECURSIVE ScanBits(_, _, _, _, _)
ScanBits(bit_string, i, reverse_codes, current, decoded_text) ==
    IF i > Len(bit_string)
    THEN [current |-> current, decoded_text |-> decoded_text]
    ELSE LET cur == Append(current, bit_string[i])
         IN  IF DictHas(reverse_codes, cur)
             THEN ScanBits(bit_string, i + 1, reverse_codes, <<>>,
                           Append(decoded_text, DictGet(reverse_codes, cur)))
             ELSE ScanBits(bit_string, i + 1, reverse_codes, cur, decoded_text)

decompress_file(byte_data, file) ==
    LET bit_string == BitString(byte_data)
        codes == json_load(file)
    IN  IF IsNone(codes)
        THEN [raised |-> "AttributeError", current |-> <<>>, decoded_text |-> <<>>]
        ELSE LET scan == ScanBits(bit_string, 1, ReverseCodes(codes.dict), <<>>, <<>>)
             IN  [raised |-> "", current |-> scan.current, decoded_text |-> scan.decoded_text]

----------------------------------------------------------------------------
(* The state a handler leaves *)

RunCompress(t) ==
    LET out == compress_file(t, default_codes)
    IN  /\ text' = t
        /\ default_codes' = out.dflt
        /\ compressed_bin' = out.bin
        /\ codes_json' = out.table
        /\ calls' = Append(calls, [text |-> t, bin |-> out.bin, table |-> out.table])
        /\ pc' = "compressed"
        /\ UNCHANGED <<decode_bin, decode_codes, decoded_txt, outcome, root>>

RunDecompress(byte_data, file) ==
    LET out == decompress_file(byte_data, file)
    IN  /\ decode_bin' = byte_data
        /\ decode_codes' = file
        /\ outcome' = IF out.raised = "" THEN "ok" ELSE out.raised
        /\ decoded_txt' = IF out.raised = "" THEN out.decoded_text ELSE decoded_txt
        /\ pc' = "decompressed"
        /\ UNCHANGED <<text, default_codes, compressed_bin, codes_json, calls, root>>

----------------------------------------------------------------------------
(* The app: the Compress tab and the Decompress tab of one server process.
   The Decompress tab is given the package the Compress tab last produced. *)

RECURSIVE TotalLen(_)
TotalLen(log) == IF log = <<>> THEN 0 ELSE TotalLen(Front(log)) + Len(log[Len(log)].text)

Init ==
    /\ pc = "idle"
    /\ text = <<>>
    /\ default_codes = <<>>
    /\ compressed_bin = <<>>
    /\ codes_json = JsonNull
    /\ decode_bin = <<>>
    /\ decode_codes = JsonNull
    /\ decoded_txt = <<>>
    /\ outcome = "none"
    /\ calls = <<>>
    /\ root = None

CompressTab ==
    /\ Len(calls) < MaxCalls
    /\ \E t \in SeqsUpTo(Alphabet, MaxTotalLen - TotalLen(calls)) : RunCompress(t)

DecompressTab ==
    /\ pc = "compressed"
    /\ RunDecompress(compressed_bin, codes_json)

Next == CompressTab \/ DecompressTab

Spec == Init /\ [][Next]_vars

----------------------------------------------------------------------------
(* Sessions of one compress_file call on a longer text, or of two calls on
   shorter texts, with the Decompress tab run on the packages. *)

FirstCompress ==
    /\ calls = <<>>
    /\ \E t \in SeqsUpTo(Alphabet, MaxCodecLen) : RunCompress(t)

SecondCompress ==
    /\ Len(calls) = 1
    /\ Len(calls[1].text) <= MaxPairLen
    /\ \E t \in SeqsUpTo(Alphabet, MaxPairLen - Len(calls[1].text)) : RunCompress(t)

NextCodec == FirstCompress \/ SecondCompress \/ DecompressTab

SpecCodec == Init /\ [][NextCodec]_vars

----------------------------------------------------------------------------
(* decompress_file applied to one uploaded package *)

RECURSIVE BitStrings(_)
BitStrings(n) ==
    IF n = 0 THEN {}
    ELSE BitStrings(n - 1) \cup {s \in SeqsUpTo({0, 1}, n) : Len(s) = n}

RECURSIVE DictsOver(_, _)
DictsOver(keys, values) ==
    IF keys = <<>> THEN {<<>>}
    ELSE {Append(d, [k |-> keys[Len(keys)], v |-> val]) :
            d \in DictsOver(Front(keys), values), val \in values}

UploadTables ==
    {JsonNull} \cup {JsonObject(d) : d \in DictsOver(UploadKeys, BitStrings(MaxUploadCodeLen))}

InitDecode ==
    /\ pc = "start"
    /\ text = <<>>
    /\ default_codes = <<>>
    /\ compressed_bin = <<>>
    /\ codes_json = JsonNull
    /\ decode_bin \in SeqsUpTo(UploadByteValues, MaxUploadBytes)
    /\ decode_codes \in UploadTables
    /\ decoded_txt = <<>>
    /\ outcome = "none"
    /\ calls = <<>>
    /\ root = None

DecodeUpload ==
    /\ pc = "start"
    /\ RunDecompress(decode_bin, decode_codes)

NextDecode == DecodeUpload

SpecDecode == InitDecode /\ [][NextDecode]_vars

----------------------------------------------------------------------------
(* Tree builder applied to one text *)

InitTree ==
    /\ pc = "start"
    /\ text \in SeqsUpTo(TreeAlphabet, MaxTreeLen)
    /\ default_codes = <<>>
    /\ compressed_bin = <<>>
    /\ codes_json = JsonNull
    /\ decode_bin = <<>>
    /\ decode_codes = JsonNull
    /\ decoded_txt = <<>>
    /\ outcome = "none"
    /\ calls = <<>>
    /\ root = None

BuildTree ==
    /\ pc = "start"
    /\ root' = build_huffman_tree(text)
    /\ pc' = "built"
    /\ UNCHANGED <<text, default_codes, compressed_bin, codes_json, decode_bin,
                   decode_codes, decoded_txt, outcome, calls>>

NextTree == BuildTree

SpecTree == InitTree /\ [][NextTree]_vars

----------------------------------------------------------------------------
(* Vocabulary of the properties *)

Symbols(t) == {t[i] : i \in 1..Len(t)}

Occurrences(t, c) == Cardinality({i \in 1..Len(t) : t[i] = c})

IsPrefix(p, q) == Len(p) <= Len(q) /\ SubSeq(q, 1, Len(p)) = p

AllZero(code) == Len(code) > 0 /\ \A i \in 1..Len(code) : code[i] = 0

HasDuplicateCodes(items) ==
    \E i, j \in 1..Len(items) : i # j /\ items[i].v = items[j].v

DictKeys(d) == {d[i].k : i \in 1..Len(d)}

SameMapping(f, g) ==
    /\ f.null = g.null
    /\ DictKeys(f.items) = DictKeys(g.items)
    /\ \A c \in DictKeys(f.items) : DictGet(f.items, c) = DictGet(g.items, c)

\* Concatenation of the codes the table file gives the symbols of t.
RECURSIVE EncodedBits(_, _)
EncodedBits(file, t) ==
    IF t = <<>> THEN <<>>
    ELSE EncodedBits(file, Front(t)) \o DictGet(file.items, t[Len(t)])

\* The bytes written out most-significant bit first.
RECURSIVE MsbFirst(_)
MsbFirst(bytes) ==
    IF bytes = <<>> THEN <<>>
    ELSE LET b == bytes[Len(bytes)]
         IN  MsbFirst(Front(bytes)) \o
             <<(b \div 128) % 2, (b \div 64) % 2, (b \div 32) % 2, (b \div 16) % 2,
               (b \div 8) % 2, (b \div 4) % 2, (b \div 2) % 2, b % 2>>

Compressed == pc \in {"compressed", "decompressed"}

PadBits == 8 * Len(compressed_bin) - Len(EncodedBits(codes_json, text))

\* Leaves of a tree with their depths.
RECURSIVE LeafDepths(_, _)
LeafDepths(node, depth) ==
    IF IsNone(node) THEN {}
    ELSE IF node.char # NoChar THEN {<<node.char, depth>>}
    ELSE LeafDepths(node.left, depth + 1) \cup LeafDepths(node.right, depth + 1)

RECURSIVE SumOver(_, _)
SumOver(S, t) ==
    IF S = {} THEN 0
    ELSE LET x == CHOOSE y \in S : TRUE
         IN  Occurrences(t, x[1]) * x[2] + SumOver(S \ {x}, t)

WeightedPathLength(node, t) == SumOver(LeafDepths(node, 0), t)

RECURSIVE Weight(_, _)
Weight(S, t) ==
    IF S = {} THEN 0
    ELSE LET c == CHOOSE y \in S : TRUE
         IN  Occurrences(t, c) + Weight(S \ {c}, t)

RECURSIVE SetMin(_)
SetMin(S) ==
    LET x == CHOOSE y \in S : TRUE
    IN  IF S = {x} THEN x ELSE Min(x, SetMin(S \ {x}))

\* Least weighted path length over every binary tree whose leaves are the
\* symbols S: a tree over S splits S in two non-empty parts, and every leaf
\* under the split is one level deeper.
RECURSIVE MinPathLength(_, _)
MinPathLength(S, t) ==
    IF Cardinality(S) = 1 THEN 0
    ELSE SetMin({MinPathLength(A, t) + MinPathLength(S \ A, t) + Weight(S, t) :
                    A \in (SUBSET S) \ {{}, S}})

----------------------------------------------------------------------------
(* Properties *)

\* C1: for every non-empty text, decompress_file on the package compress_file
\* emitted for it reconstructs exactly that text.
C1_RoundTrip ==
    (pc = "decompressed" /\ text # <<>>) => (outcome = "ok" /\ decoded_txt = text)

\* C2: in the code table emitted by any compress_file call, no symbol's code
\* is a prefix of (or equal to) the code of another symbol.
C2_PrefixFree ==
    \A n \in 1..Len(calls) :
        LET items == calls[n].table.items
        IN  \A i, j \in 1..Len(items) : i # j => ~IsPrefix(items[i].v, items[j].v)

\* C3: any two compress_file calls of one process on identical text emit an
\* identical packed bitstream and an identical code table.
C3_Deterministic ==
    \A m, n \in 1..Len(calls) :
        calls[m].text = calls[n].text =>
            /\ calls[m].bin = calls[n].bin
            /\ SameMapping(calls[m].table, calls[n].table)

\* C4: compress_file on the empty text emits empty packed bytes and a code
\* table that is a mapping with no entries, and decompress_file on them
\* completes and yields the empty text.
C4_EmptyInput ==
    (Compressed /\ text = <<>>) =>
        /\ compressed_bin = <<>>
        /\ codes_json = JsonObject(<<>>)
        /\ pc = "decompressed" => (outcome = "ok" /\ decoded_txt = <<>>)

\* C5: for a text of k >= 1 repetitions of one symbol, the emitted code table
\* has exactly one entry, its code is a single bit, and decompress_file on the
\* emitted package returns the k-symbol text.
C5_SingleSymbol ==
    (Compressed /\ Cardinality(Symbols(text)) = 1) =>
        /\ ~codes_json.null
        /\ Len(codes_json.items) = 1
        /\ Len(codes_json.items[1].v) = 1
        /\ pc = "decompressed" => (outcome = "ok" /\ decoded_txt = text)

\* C6: the tree build_huffman_tree returns for a non-empty text has one leaf
\* per distinct symbol, and its weighted path length (sum over symbols of
\* frequency times leaf depth) is the least over all binary trees with those
\* leaves.
C6_Optimal ==
    (pc = "built" /\ text # <<>>) =>
        /\ {l[1] : l \in LeafDepths(root, 0)} = Symbols(text)
        /\ Cardinality(LeafDepths(root, 0)) = Cardinality(Symbols(text))
        /\ WeightedPathLength(root, text) = MinPathLength(Symbols(text), text)

C6_Witness ==
    /\ pc = "built"
    /\ Cardinality(Symbols(text)) = 4
    /\ WeightedPathLength(root, text) < 2 * Len(text)

\* C7: the bytes compress_file writes, expanded most-significant bit first,
\* are the codes of the input symbols in input order followed by zero bits
\* only, the number of zero bits being the least k in 0..7 that makes the
\* length a multiple of 8 (none when it already is).
C7_PackedFormat ==
    Compressed =>
        LET enc == EncodedBits(codes_json, text)
        IN  \E k \in 0..7 :
                /\ MsbFirst(compressed_bin) = enc \o Zeros(k)
                /\ (Len(enc) + k) % 8 = 0
                /\ \A j \in 0..(k - 1) : (Len(enc) + j) % 8 # 0

C7_Witness ==
    /\ pc = "compressed"
    /\ Len(calls) = 2
    /\ calls[1].text # <<>>
    /\ Cardinality(Symbols(text)) = 3
    /\ Len(EncodedBits(codes_json, text)) = 8
    /\ Len(compressed_bin) = 1

\* C8: decompress_file given a code table in which two symbols map to the
\* same bitstring fails with a CorruptTableError and produces no decoded text.
C8_CorruptTable ==
    (pc = "decompressed" /\ ~decode_codes.null /\ HasDuplicateCodes(decode_codes.items)) =>
        (outcome = "CorruptTableError" /\ decoded_txt = <<>>)

\* C9: decompress_file fails with a DecodingError when the scan ends with
\* accumulated bits that matched no code of the table.
C9_MalformedStream ==
    (pc = "decompressed" /\ ~decode_codes.null
        /\ decompress_file(decode_bin, decode_codes).current # <<>>) =>
        outcome = "DecodingError"

\* C10: after a compress_file call by a fresh process on a text with at least
\* two distinct symbols, decompress_file on the emitted package returns the
\* text followed by extra symbols only; every extra symbol has a code of zero
\* bits only, and there are at most as many extra symbols as pad bits.
C10_PhantomBound ==
    (pc = "decompressed" /\ Len(calls) = 1 /\ Cardinality(Symbols(text)) >= 2) =>
        /\ outcome = "ok"
        /\ PadBits \in 0..7
        /\ Len(decoded_txt) - Len(text) \in 0..PadBits
        /\ SubSeq(decoded_txt, 1, Len(text)) = text
        /\ \A i \in (Len(text) + 1)..Len(decoded_txt) :
               AllZero(DictGet(codes_json.items, decoded_txt[i]))

C10_Witness ==
    /\ pc = "decompressed"
    /\ Len(calls) = 1
    /\ Cardinality(Symbols(text)) >= 2
    /\ Len(decoded_txt) > Len(text)
    /\ Len(decoded_txt) - Len(text) < PadBits

====
